---- MODULE Spec2Model ----
(***************************************************************************)
(* A model of dbreport.Report (src/dbreport/dbreport.py): one reporting    *)
(* session over a sqlite database, the category resolution                 *)
(* (__add_misc_category), the layout merge (__set_defaults) and the path   *)
(* expansion (__expand_paths, __get_layout).                               *)
(*                                                                         *)
(* Python values are modelled as follows.                                  *)
(*   - a list is a sequence;                                               *)
(*   - a dict is a sequence of <<key, value>> pairs with distinct keys, in *)
(*     insertion order (a Python dict iterates in insertion order);        *)
(*   - an exception is a record [type, msg], msg being the parts of the    *)
(*     formatted message, interpolated values included;                    *)
(*   - view names are strings; NameOrder lists them in the order of        *)
(*     sqlite's ORDER BY name.                                             *)
(***************************************************************************)
EXTENDS Integers, Sequences, FiniteSets, TLC

VARIABLES
    db,             \* the names of the views in sqlite_master
    db_exists,      \* os.path.exists(self.paths["database"])
    phase,          \* "new", "ready", "failed" (__init__ raised), "ended"
    cursor,         \* self.cursor: "unset", "open", "closed"
    connection,     \* the sqlite3 connection behind the cursor
    opened,         \* number of sq3.connect calls made
    all_views,      \* self.__all_views, [has |-> FALSE] until fetched
    ignore,         \* self.__ignore
    categories,     \* self.__categories
    written,        \* names of the report files written by the last call
    args,           \* arguments of the function under study (pure specs)
    ret,            \* value returned by the last call
    raised          \* exception raised by the last call, NoError if none

vars == <<db, db_exists, phase, cursor, connection, opened, all_views,
          ignore, categories, written, args, ret, raised>>

sessionVars == <<db, db_exists, cursor, connection, opened, all_views,
                 ignore, categories>>

---------------------------------------------------------------------------
(* Bounds and universes *)

\* longest list given as input (ignore list, category entries, render list)
MaxLen == 1

\* the view names that may occur, in sqlite's ORDER BY name order
NameOrder == <<"a", "b", "c">>

Names == {NameOrder[i] : i \in DOMAIN NameOrder}

\* the names the caller's inputs mention (ignore lists, category entries,
\* render arguments); the database may hold views the caller never mentions
InputNames == {"a", "b"}

\* category (menu) names a configuration may declare
CatNames == {"X", "Misc"}

Range(s) == {s[i] : i \in DOMAIN s}

Lists(S, n) == UNION {[1..k -> S] : k \in 0..n}

\* position of a name in the ORDER BY name order
Rank(n) == CHOOSE i \in DOMAIN NameOrder : NameOrder[i] = n

---------------------------------------------------------------------------
(* Python dict, as a sequence of <<key, value>> pairs *)

Keys(d) == {d[i][1] : i \in DOMAIN d}

Get(d, k) == d[CHOOSE i \in DOMAIN d : d[i][1] = k][2]

\* dict.setdefault(k, v): insert only when the key is absent
SetDefault(d, k, v) == IF k \in Keys(d) THEN d ELSE Append(d, <<k, v>>)

\* dict[k] = v: overwrite, or insert at the end
SetItem(d, k, v) ==
    IF k \in Keys(d)
    THEN [i \in DOMAIN d |-> IF d[i][1] = k THEN <<k, v>> ELSE d[i]]
    ELSE Append(d, <<k, v>>)

Dicts(K, V) ==
    {d \in UNION {[1..n -> K \X V] : n \in 0..Cardinality(K)} :
        \A i, j \in DOMAIN d : d[i][1] = d[j][1] => i = j}

\* the values of a dict of lists, concatenated in iteration order
RECURSIVE Flatten(_)
Flatten(d) == IF d = <<>> THEN <<>> ELSE d[1][2] \o Flatten(Tail(d))

---------------------------------------------------------------------------
(* Exceptions *)

NoError == [type |-> "none", msg |-> <<>>]

Exc(t, m) == [type |-> t, msg |-> m]

BothSourcesError == Exc("ValueError", <<"cannot have both layout path and kwargs">>)

DatabaseMissingError == Exc("FileNotFoundError", <<"database", "does not exist">>)

IgnoreError(value) ==
    Exc("ValueError", <<"Cannot update ignore list since", value, "is not a view">>)

CategoryError(entry) ==
    Exc("ValueError", <<"given category item", entry, "does not have a report">>)

---------------------------------------------------------------------------
(* The view catalog *)

\* SELECT name FROM sqlite_master WHERE TYPE = "view" ORDER BY name
Query(database) ==
    LET isView(n) == n \in database IN SelectSeq(NameOrder, isView)

NotFetched == [has |-> FALSE, val |-> <<>>]

Fetched(views) == [has |-> TRUE, val |-> views]

\* Report.__get_views: the cached list, fetched from the database on first use
GetViews(cache, database) ==
    IF cache.has THEN cache.val ELSE Query(database)

\* Report.views with the ignore filter left out
ViewsUnfiltered(allviews, ign) == allviews

\* Report.views: all views without the ones in the ignore list
Views(allviews, ign) ==
    LET kept(v) == v \notin Range(ign) IN SelectSeq(allviews, kept)

---------------------------------------------------------------------------
(* The property setters *)

\* the ignore setter with its membership test left out
IgnoreCheckSkipped(values, allviews) == NoError

\* Report.ignore setter: the exception it raises, NoError when it assigns
IgnoreCheck(values, allviews) ==
    LET notView(v) == v \notin Range(allviews)
        bad == SelectSeq(values, notView)
    IN  IF bad = <<>> THEN NoError ELSE IgnoreError(bad[1])

\* the categories setter leaving its loop after the first category
CategoriesCheckFirstOnly(cats, views) ==
    LET notReport(e) == e \notin Range(views)
        bad == IF cats = <<>> THEN <<>> ELSE SelectSeq(cats[1][2], notReport)
    IN  IF bad = <<>> THEN NoError ELSE CategoryError(bad[1])

\* Report.categories setter: the exception it raises, NoError when it assigns.
\* Inputs are dicts from str to list, so neither TypeError is raised.
CategoriesCheck(cats, views) ==
    LET notReport(e) == e \notin Range(views)
        bad == SelectSeq(Flatten(cats), notReport)
    IN  IF bad = <<>> THEN NoError ELSE CategoryError(bad[1])

---------------------------------------------------------------------------
(* Category resolution *)

\* __add_misc_category adding Misc also when no view is left for it
AddMiscCategoryAlways(cats, views) ==
    LET categorized_views == Range(Flatten(cats))
        uncategorized(v) == v \notin categorized_views
        misc_views == SelectSeq(views, uncategorized)
    IN  SetDefault(cats, "Misc", misc_views)

\* __add_misc_category assigning Misc instead of setdefault
AddMiscCategoryOverwrite(cats, views) ==
    LET categorized_views == Range(Flatten(cats))
        uncategorized(v) == v \notin categorized_views
        misc_views == SelectSeq(views, uncategorized)
    IN  IF misc_views # <<>>
        THEN SetItem(cats, "Misc", misc_views)
        ELSE cats

\* Report.__add_misc_category
AddMiscCategory(cats, views) ==
    LET categorized_views == Range(Flatten(cats))
        uncategorized(v) == v \notin categorized_views
        misc_views == SelectSeq(views, uncategorized)
    IN  IF misc_views # <<>>
        THEN SetDefault(cats, "Misc", misc_views)
        ELSE cats

\* Report.__get_categories
GetCategories(declared, views) == AddMiscCategory(declared, views)

---------------------------------------------------------------------------
(* Rendering *)

\* the views argument of render: None, one name, or a list of names
ViewArgs ==
    {[kind |-> "none", names |-> <<>>]}
        \cup {[kind |-> "str", names |-> <<n>>] : n \in InputNames}
        \cup {[kind |-> "list", names |-> l] : l \in Lists(InputNames, MaxLen)}

\* render, lines 424-430: the list of views a call renders
RenderList(arg, current) ==
    IF arg.kind = "none" THEN current ELSE arg.names

\* the keys of the reports dict, in insertion order (setdefault keeps the first)
RECURSIVE ReportKeys(_)
ReportKeys(vs) ==
    IF vs = <<>> THEN <<>>
    ELSE LET rest == ReportKeys(Tail(vs))
             other(v) == v # vs[1]
         IN  <<vs[1]>> \o SelectSeq(rest, other)

QueryError(view) == Exc("OperationalError", <<"no such table", view>>)

ParseError ==
    Exc("NotImplementedError", <<"parse function must be overloaded before use">>)

\* render, lines 432-437: each view is queried (__get_data) and then rendered
\* (__render_report, which calls parse when asked to); the first failure ends
\* the call
RenderError(vs, parse, database) ==
    LET missing(v) == v \notin database
        bad == SelectSeq(vs, missing)
    IN  IF vs = <<>> THEN NoError
        ELSE IF vs[1] \notin database THEN QueryError(vs[1])
        ELSE IF parse THEN ParseError
        ELSE IF bad # <<>> THEN QueryError(bad[1])
        ELSE NoError

NotADirectory == Exc("NotADirectoryError", <<"is not a directory">>)

---------------------------------------------------------------------------
(* The session *)

\* sq3.connect(self.paths["database"]), line 35
Connect(n) == n + 1

\* __del__ that closes nothing
CloseCursorSkipped(c) == c

\* Report.__del__: cursor.close(), AttributeError swallowed when unset
CloseCursor(c) == IF c = "unset" THEN "unset" ELSE "closed"

\* the configurations a session may be constructed with: the merged layout's
\* ignore_views and categories
IgnoreInputs == Lists(InputNames, MaxLen)

CategoryInputs == Dicts(CatNames, Lists(InputNames, MaxLen))

SessionInit ==
    /\ db \in SUBSET Names
    /\ db_exists \in BOOLEAN
    /\ phase = "new"
    /\ cursor = "unset"
    /\ connection = "none"
    /\ opened = 0
    /\ all_views = NotFetched
    /\ ignore = <<>>
    /\ categories = <<>>
    /\ written = {}
    /\ args = <<>>
    /\ ret = <<>>
    /\ raised = NoError

\* Report.__init__(layout_path, **kwargs); both: a layout path and keyword
\* arguments are given together; ignore_views, declared: the merged layout's
\* "ignore_views" and "categories"
Construct(both, ignore_views, declared) ==
    /\ phase = "new"
    /\ UNCHANGED <<db, db_exists, written, args, ret>>
    /\ IF both
       THEN /\ raised' = BothSourcesError
            /\ phase' = "failed"
            /\ UNCHANGED <<cursor, connection, opened, all_views, ignore, categories>>
       ELSE IF ~db_exists
       THEN /\ raised' = DatabaseMissingError
            /\ phase' = "failed"
            /\ UNCHANGED <<cursor, connection, opened, all_views, ignore, categories>>
       ELSE LET allviews == GetViews(all_views, db)
                ignErr == IgnoreCheck(ignore_views, allviews)
                views == Views(allviews, ignore_views)
                cat_list == GetCategories(declared, views)
                catErr == CategoriesCheck(cat_list, views)
            IN  /\ cursor' = "open"
                /\ connection' = "open"
                /\ opened' = Connect(opened)
                /\ IF ignErr # NoError
                   THEN /\ raised' = ignErr
                        /\ phase' = "failed"
                        /\ all_views' = Fetched(allviews)
                        /\ UNCHANGED <<ignore, categories>>
                   ELSE IF catErr # NoError
                   THEN /\ raised' = catErr
                        /\ phase' = "failed"
                        /\ all_views' = Fetched(allviews)
                        /\ ignore' = ignore_views
                        /\ UNCHANGED categories
                   ELSE /\ raised' = NoError
                        /\ phase' = "ready"
                        /\ all_views' = Fetched(allviews)
                        /\ ignore' = ignore_views
                        /\ categories' = cat_list

\* report.ignore = values
SetIgnore(values) ==
    /\ phase = "ready"
    /\ LET err == IgnoreCheck(values, GetViews(all_views, db))
       IN  /\ raised' = err
           /\ ignore' = IF err = NoError THEN values ELSE ignore
    /\ ret' = <<>>
    /\ written' = {}
    /\ UNCHANGED <<db, db_exists, phase, cursor, connection, opened, all_views,
                   categories, args>>

\* report.categories = cats
SetCategories(cats) ==
    /\ phase = "ready"
    /\ LET err == CategoriesCheck(cats, Views(GetViews(all_views, db), ignore))
       IN  /\ raised' = err
           /\ categories' = IF err = NoError THEN cats ELSE categories
    /\ ret' = <<>>
    /\ written' = {}
    /\ UNCHANGED <<db, db_exists, phase, cursor, connection, opened, all_views,
                   ignore, args>>

\* report.render(views, parse): returns the reports, keyed by view name
Render(arg, parse) ==
    /\ phase = "ready"
    /\ LET vs == RenderList(arg, Views(GetViews(all_views, db), ignore))
           err == RenderError(vs, parse, db)
       IN  /\ raised' = err
           /\ ret' = IF err = NoError THEN ReportKeys(vs) ELSE <<>>
    /\ written' = {}
    /\ UNCHANGED <<phase, sessionVars, args>>

\* report.write(report_dir, views, parse); isdir: os.path.isdir(report_dir)
Write(isdir, arg, parse) ==
    /\ phase = "ready"
    /\ LET vs == RenderList(arg, Views(GetViews(all_views, db), ignore))
           err == IF ~isdir THEN NotADirectory ELSE RenderError(vs, parse, db)
       IN  /\ raised' = err
           /\ written' = IF err = NoError THEN Range(vs) ELSE {}
    /\ ret' = <<>>
    /\ UNCHANGED <<db, db_exists, phase, cursor, connection, opened, all_views,
                   ignore, categories, args>>

\* Report.__del__, run when the session object is released, also after a
\* failed __init__. The connection is referenced by the cursor alone and is
\* closed with it when the object goes.
Del ==
    /\ phase \in {"ready", "failed"}
    /\ phase' = "ended"
    /\ cursor' = CloseCursor(cursor)
    /\ connection' = IF cursor' = "closed" THEN "closed" ELSE connection
    /\ UNCHANGED <<db, db_exists, opened, all_views, ignore, categories, written,
                   args, ret, raised>>

DoConstruct ==
    \E both \in BOOLEAN, ign \in IgnoreInputs, declared \in CategoryInputs :
        Construct(both, ign, declared)

DoSetIgnore == \E values \in IgnoreInputs : SetIgnore(values)

DoSetCategories == \E cats \in CategoryInputs : SetCategories(cats)

DoRender == \E arg \in ViewArgs, parse \in BOOLEAN : Render(arg, parse)

DoWrite == \E isdir \in BOOLEAN, arg \in ViewArgs, parse \in BOOLEAN : Write(isdir, arg, parse)

Next == DoConstruct \/ DoSetIgnore \/ DoSetCategories \/ DoRender \/ DoWrite \/ Del

Spec == SessionInit /\ [][Next]_vars

---------------------------------------------------------------------------
(* Properties of the session *)

\* the reportable views of the session: Report.views on the current state
CurrentViews == Views(GetViews(all_views, db), ignore)

Reportable(v) == v \in db /\ v \notin Range(ignore)

\* C1: in every state of a constructed session, every view name listed under
\* any category, Misc included, is a reportable view: it is a view of the
\* database and it is not in the current ignore list.
C1_ListedViewsAreReportable ==
    phase = "ready" => \A e \in Range(Flatten(categories)) : Reportable(e)

\* C2: in a constructed session every reportable view is listed under at
\* least one category of the session's categories.
C2_ReportableViewsAreListed ==
    phase = "ready" => \A v \in db : Reportable(v) => v \in Range(Flatten(categories))

IsCategoryError(e) ==
    e.type = "ValueError" /\ e.msg # <<>> /\ e.msg[1] = "given category item"

IsIgnoreError(e) ==
    e.type = "ValueError" /\ e.msg # <<>>
        /\ e.msg[1] = "Cannot update ignore list since"

\* C6, as claimed: the error raised for a category entry that is not a
\* reportable view names the offending view and the category that contains it.
C6_ErrorNamesViewAndCategory ==
    IsCategoryError(raised) => \E c \in CatNames : c \in Range(raised.msg)

\* C6, amended: when a declared category lists a view that is not reportable,
\* construction fails and no session is produced; when the earlier checks of
\* __init__ pass (one configuration source, the database file exists, the
\* ignore list names database views only) the failure is a ValueError whose
\* message names an offending view of the declared categories and no category.
C6_BadCategoryFailsConstruction ==
    [][phase = "new" =>
       \A both \in BOOLEAN, ign \in IgnoreInputs, declared \in CategoryInputs :
          (/\ Construct(both, ign, declared)
           /\ \E e \in Range(Flatten(declared)) : e \notin db \/ e \in Range(ign))
          => /\ phase' = "failed"
             /\ categories' = <<>>
             /\ (~both /\ db_exists /\ Range(ign) \subseteq db)
                  => /\ IsCategoryError(raised')
                     /\ Len(raised'.msg) = 3
                     /\ raised'.msg[2] \in Range(Flatten(declared))
                     /\ raised'.msg[2] \notin db \/ raised'.msg[2] \in Range(ign)
                     /\ \A c \in CatNames : c \notin Range(raised'.msg)]_vars

\* a construction that got as far as the categories and failed on them
C6_Witness ==
    phase = "failed" /\ IsCategoryError(raised) /\ connection = "open"

\* C7: assigning an ignore list that holds a name which is no view of the
\* database raises ValueError, at construction (when __init__ gets to it) and
\* on a later assignment, and a failed assignment leaves the ignore list as it
\* was; a list of database views is assigned.
C7_IgnoreListIsValidated ==
    [][/\ \A values \in IgnoreInputs :
            SetIgnore(values)
            => IF Range(values) \subseteq db
               THEN raised' = NoError /\ ignore' = values
               ELSE /\ IsIgnoreError(raised')
                    /\ raised'.msg[2] \in Range(values) \ db
                    /\ ignore' = ignore
       /\ phase = "new" =>
          \A both \in BOOLEAN, ign \in IgnoreInputs, declared \in CategoryInputs :
            (/\ Construct(both, ign, declared)
             /\ ~both /\ db_exists /\ ~(Range(ign) \subseteq db))
            => /\ phase' = "failed"
               /\ IsIgnoreError(raised')
               /\ raised'.msg[2] \in Range(ign) \ db]_vars

\* a later assignment failed and the session keeps a non-empty ignore list
C7_Witness ==
    phase = "ready" /\ IsIgnoreError(raised) /\ ignore # <<>>

C10_ViewsAreFilteredCatalog ==
    phase = "ready" =>
        /\ Range(CurrentViews) = db \ Range(ignore)
        /\ \A i, j \in DOMAIN CurrentViews :
              i < j => Rank(CurrentViews[i]) < Rank(CurrentViews[j])

\* database {a, b, c} with b ignored: the views are a, c
C10_Witness ==
    phase = "ready" /\ ignore = <<"b">> /\ CurrentViews = <<"a", "c">>

---------------------------------------------------------------------------
(* Category resolution on its own: __add_misc_category applied to declared *)
(* categories and a list of reportable views                               *)

\* the session variables, unused while a function is studied on its own
NoSession ==
    /\ db = {}
    /\ db_exists = FALSE
    /\ cursor = "unset"
    /\ connection = "none"
    /\ opened = 0
    /\ all_views = NotFetched
    /\ ignore = <<>>
    /\ categories = <<>>
    /\ written = {}

\* lists of reportable views: what Report.views returns for some database
\* and ignore list
ViewLists == {Query(S) : S \in SUBSET Names}

ResolveInit ==
    /\ NoSession
    /\ phase = "call"
    /\ args \in [categories : Dicts(CatNames, Lists(Names, MaxLen)),
                 views : ViewLists]
    /\ ret = <<>>
    /\ raised = NoError

Resolve ==
    /\ phase = "call"
    /\ phase' = "return"
    /\ ret' = AddMiscCategory(args.categories, args.views)
    /\ UNCHANGED <<sessionVars, written, args, raised>>

SpecResolve == ResolveInit /\ [][Resolve]_vars

\* the reportable views that no declared category lists
Uncategorized == Range(args.views) \ Range(Flatten(args.categories))

Pos(s, x) == CHOOSE i \in DOMAIN s : s[i] = x

\* C4: without a declared Misc, resolution returns the declared categories
\* unchanged plus, only when some reportable view is in no declared category,
\* a Misc entry listing exactly those views, each once, in the order of the
\* reportable views.
C4_MiscIsTheUncategorizedViews ==
    (phase = "return" /\ "Misc" \notin Keys(args.categories)) =>
        /\ Len(ret) = Cardinality(Keys(ret))
        /\ Keys(ret) = Keys(args.categories)
                         \cup (IF Uncategorized = {} THEN {} ELSE {"Misc"})
        /\ \A k \in Keys(args.categories) : Get(ret, k) = Get(args.categories, k)
        /\ Uncategorized # {} =>
             LET misc == Get(ret, "Misc")
             IN  /\ Range(misc) = Uncategorized
                 /\ Len(misc) = Cardinality(Uncategorized)
                 /\ \A i, j \in DOMAIN misc :
                       i < j => Pos(args.views, misc[i]) < Pos(args.views, misc[j])

\* views a, b, c and X: [a] resolve to X: [a], Misc: [b, c]
C4_Witness ==
    /\ phase = "return"
    /\ args.categories = << <<"X", <<"a">>>> >>
    /\ args.views = <<"a", "b", "c">>
    /\ ret = << <<"X", <<"a">>>>, <<"Misc", <<"b", "c">>>> >>

---------------------------------------------------------------------------
(* The layout merge: Report.__set_defaults                                 *)
(*                                                                         *)
(* A layout value is tagged: Leaf(x) is a value that is no dict, Node(f) a *)
(* dict, f a function from its keys to layout values. Two dicts are equal  *)
(* in Python whatever the order of their keys, and the merge reads no      *)
(* order, so the dicts of a layout are functions, not sequences of pairs.  *)

Leaf(x) == [leaf |-> x]

Node(f) == [dict |-> f]

IsDict(t) == "dict" \in DOMAIN t

IsLeaf(t) == "leaf" \in DOMAIN t

\* a call on a value that is no dict: 'str' object has no attribute 'setdefault'
Crash == [crash |-> "AttributeError"]

IsCrash(t) == "crash" \in DOMAIN t

\* __set_defaults assigning user_layout[k] = v instead of setdefault: a leaf
\* of the default replaces the user's value
RECURSIVE SetDefaultsOverwrite(_, _)
SetDefaultsOverwrite(default_layout, user_layout) ==
    LET d == default_layout.dict IN
    IF DOMAIN d = {} THEN user_layout
    ELSE IF ~IsDict(user_layout) THEN Crash
    ELSE LET u == user_layout.dict
             merged == [k \in DOMAIN d \cup DOMAIN u |->
                          IF k \notin DOMAIN d THEN u[k]
                          ELSE LET uk == IF k \in DOMAIN u THEN u[k] ELSE d[k]
                               IN  IF IsDict(d[k]) THEN SetDefaultsOverwrite(d[k], uk)
                                   ELSE d[k]]
         IN  IF \E k \in DOMAIN merged : IsCrash(merged[k])
             THEN Crash
             ELSE Node(merged)

\* __set_defaults recursing with user_layout instead of user_layout[k]: the
\* keys of a nested default land one level up. FlatFold runs the loop over the
\* keys ks of the default d that are still to be visited.
RECURSIVE SetDefaultsFlat(_, _), FlatFold(_, _, _)
FlatFold(d, ks, user_layout) ==
    IF ks = {} THEN user_layout
    ELSE LET k == CHOOSE x \in ks : TRUE
             u == user_layout.dict
             filled == IF k \in DOMAIN u THEN user_layout
                       ELSE Node([x \in DOMAIN u \cup {k} |->
                                    IF x = k THEN d[k] ELSE u[x]])
             merged == IF IsDict(d[k]) THEN SetDefaultsFlat(d[k], filled)
                       ELSE filled
         IN  IF IsCrash(merged) THEN Crash ELSE FlatFold(d, ks \ {k}, merged)

SetDefaultsFlat(default_layout, user_layout) ==
    LET d == default_layout.dict IN
    IF DOMAIN d = {} THEN user_layout
    ELSE IF ~IsDict(user_layout) THEN Crash
    ELSE FlatFold(d, DOMAIN d, user_layout)

\* Report.__set_defaults(default_layout, user_layout): the user layout after
\* the call, Crash when the call raises. user_layout.setdefault(k, v) puts the
\* default's own value in; merging that value into itself changes nothing.
RECURSIVE SetDefaults(_, _)
SetDefaults(default_layout, user_layout) ==
    LET d == default_layout.dict IN
    IF DOMAIN d = {} THEN user_layout
    ELSE IF ~IsDict(user_layout) THEN Crash
    ELSE LET u == user_layout.dict
             merged == [k \in DOMAIN d \cup DOMAIN u |->
                          IF k \notin DOMAIN d THEN u[k]
                          ELSE LET uk == IF k \in DOMAIN u THEN u[k] ELSE d[k]
                               IN  IF IsDict(d[k]) THEN SetDefaults(d[k], uk)
                                   ELSE uk]
         IN  IF \E k \in DOMAIN merged : IsCrash(merged[k])
             THEN Crash
             ELSE Node(merged)

\* number of distinct leaf values
MaxLeaf == 2

LayoutKeys == {"k1", "k2"}

LeafValues == {Leaf(i) : i \in 1..MaxLeaf}

DictsOver(V) == {Node(f) : f \in UNION {[K -> V] : K \in SUBSET LayoutKeys}}

\* layouts nested two deep
Layouts == DictsOver(LeafValues \cup DictsOver(LeafValues))

MergeInit ==
    /\ NoSession
    /\ phase = "call"
    /\ args \in [default_layout : Layouts, user_layout : Layouts]
    /\ ret = <<>>
    /\ raised = NoError

Merge ==
    /\ phase = "call"
    /\ phase' = "return"
    /\ LET r == SetDefaults(args.default_layout, args.user_layout)
       IN  IF IsCrash(r)
           THEN ret' = <<>> /\ raised' = Exc("AttributeError", <<"setdefault">>)
           ELSE ret' = r /\ raised' = NoError
    /\ UNCHANGED <<sessionVars, written, args>>

SpecMerge == MergeInit /\ [][Merge]_vars

\* every key of the default is in the result, at every depth
RECURSIVE HasDefaultKeys(_, _)
HasDefaultKeys(d, r) ==
    IsDict(d) =>
        \A k \in DOMAIN d.dict :
            /\ IsDict(r)
            /\ k \in DOMAIN r.dict
            /\ HasDefaultKeys(d.dict[k], r.dict[k])

\* every value the user gave is in the result: a leaf as it is, a dict with
\* all its keys, recursively
RECURSIVE KeepsUser(_, _)
KeepsUser(u, r) ==
    IF IsLeaf(u) THEN r = u
    ELSE /\ IsDict(r)
         /\ \A k \in DOMAIN u.dict :
               k \in DOMAIN r.dict /\ KeepsUser(u.dict[k], r.dict[k])

\* nothing but the two layouts is in the result: a key comes from the user or
\* from the default, a key of the default alone carries the default's value
\* and a key of the user alone the user's, at every depth
RECURSIVE OnlyMerged(_, _, _)
OnlyMerged(d, u, r) ==
    (IsDict(d) /\ IsDict(u) /\ IsDict(r)) =>
        \A k \in DOMAIN r.dict :
            /\ k \in DOMAIN d.dict \cup DOMAIN u.dict
            /\ k \notin DOMAIN u.dict => r.dict[k] = d.dict[k]
            /\ k \notin DOMAIN d.dict => r.dict[k] = u.dict[k]
            /\ k \in DOMAIN d.dict \cap DOMAIN u.dict
                 => OnlyMerged(d.dict[k], u.dict[k], r.dict[k])

\* the call visits a user value that is no dict where the default has keys
RECURSIVE ShapeConflict(_, _)
ShapeConflict(d, u) ==
    /\ IsDict(d)
    /\ DOMAIN d.dict # {}
    /\ \/ ~IsDict(u)
       \/ \E k \in DOMAIN d.dict \cap DOMAIN u.dict :
             ShapeConflict(d.dict[k], u.dict[k])

\* C9: when the user layout is a mapping wherever the merge visits it, the
\* merge returns a layout that has every key of the default at every depth,
\* keeps every value the user supplied (a leaf of the user is never replaced
\* by a default) and merges nested mappings key by key; the merge raises only
\* when a visited user value is no mapping.
C9_MergeKeepsUserAndFillsDefaults ==
    phase = "return" =>
        IF ShapeConflict(args.default_layout, args.user_layout)
        THEN raised.type = "AttributeError"
        ELSE /\ raised = NoError
             /\ HasDefaultKeys(args.default_layout, ret)
             /\ KeepsUser(args.user_layout, ret)
             /\ OnlyMerged(args.default_layout, args.user_layout, ret)

\* default {k1: {k1: 1, k2: 2}, k2: 1} and user {k1: {k1: 2}}: the nested
\* dict is filled, the user's leaf is kept
C9_Witness ==
    /\ phase = "return"
    /\ args.default_layout =
          Node([k \in {"k1", "k2"} |->
                  IF k = "k1" THEN Node([j \in {"k1", "k2"} |->
                                           IF j = "k1" THEN Leaf(1) ELSE Leaf(2)])
                  ELSE Leaf(1)])
    /\ args.user_layout = Node([k \in {"k1"} |-> Node([j \in {"k1"} |-> Leaf(2)])])
    /\ ret = Node([k \in {"k1", "k2"} |->
                     IF k = "k1" THEN Node([j \in {"k1", "k2"} |-> Leaf(2)])
                     ELSE Leaf(1)])

\* C11: the merge of a layout with itself, as the default and as the user
\* layout, raises nothing and returns a layout equal to it.
C11_MergeWithItselfIsIdentity ==
    (phase = "return" /\ args.default_layout = args.user_layout) =>
        raised = NoError /\ ret = args.user_layout

\* {k1: {k1: 1, k2: 2}, k2: 1} merged with itself
C11_Witness ==
    /\ phase = "return"
    /\ args.default_layout = args.user_layout
    /\ args.user_layout =
          Node([k \in {"k1", "k2"} |->
                  IF k = "k1" THEN Node([j \in {"k1", "k2"} |->
                                           IF j = "k1" THEN Leaf(1) ELSE Leaf(2)])
                  ELSE Leaf(1)])
    /\ ret = args.user_layout

---------------------------------------------------------------------------
(* Path expansion and the merged layout: __expand_paths, __get_layout      *)
(*                                                                         *)
(* A path is the sequence of its segments, absolute when the first is "/"; *)
(* the empty string is the empty sequence. A value of the paths mapping is *)
(* [list, paths]: one path (list FALSE) or a list of paths (list TRUE).    *)

IsAbs(p) == p # <<>> /\ p[1] = "/"

Str(p) == [list |-> FALSE, paths |-> <<p>>]

PathList(ps) == [list |-> TRUE, paths |-> ps]

\* the working directory of the process
Cwd == <<"/", "cwd">>

\* os.path.dirname(__file__): the package directory
PackageDir == <<"/", "pkg">>

\* os.path.join(base, *path.split(os.pathsep)); the paths hold no os.pathsep
Join(base, p) == IF IsAbs(p) THEN p ELSE base \o p

\* os.path.abspath
AbsPath(p) == IF IsAbs(p) THEN p ELSE Cwd \o p

\* os.path.isdir and os.listdir; fs says what the paths ending in "dir" are:
\* "none" (no directory), "empty" or "full" (a directory holding f1 and f2)
IsDir(p, fs) == p # <<>> /\ p[Len(p)] = "dir" /\ fs # "none"

ListDir(p, fs) == IF fs = "full" THEN <<"f1", "f2">> ELSE <<>>

\* Report.__expand_paths, one entry of input_paths
ExpandEntry(key, value, base_path, fs) ==
    IF value = Str(<<>>) THEN Str(<<>>)
    ELSE IF value.list
    THEN PathList([i \in DOMAIN value.paths |->
                      AbsPath(Join(base_path, value.paths[i]))])
    ELSE LET full_path == AbsPath(Join(base_path, value.paths[1]))
             listing == ListDir(full_path, fs)
         IN  IF IsDir(full_path, fs) /\ key # "report_dir" /\ listing # <<>>
             THEN PathList([i \in DOMAIN listing |-> full_path \o <<listing[i]>>])
             ELSE Str(full_path)

\* Report.__expand_paths
ExpandPaths(input_paths, base_path, fs) ==
    [key \in DOMAIN input_paths |->
        ExpandEntry(key, input_paths[key], base_path, fs)]

\* a layout holding nothing but its paths, as a layout value
PathsLayout(paths) ==
    Node([k \in {"paths"} |-> Node([key \in DOMAIN paths |-> Leaf(paths[key])])])

EmptyLayout == Node(<<>>)

\* Report.__get_layout(user_path, kwargs): [layout, raised]. from_file: the
\* user layout is read from user_path, whose directory is user_dir; otherwise
\* it is kwargs. has_paths: the user layout has a "paths" key. The loop of
\* lines 274-275 runs over zip(layouts, bases), and bases holds the base of
\* the user layout only when it is read from a file.
GetLayout(from_file, user_dir, default_paths, has_paths, user_paths, fs) ==
    LET default == PathsLayout(ExpandPaths(default_paths, PackageDir, fs))
        user == IF ~has_paths THEN EmptyLayout
                ELSE IF from_file
                THEN PathsLayout(ExpandPaths(user_paths, user_dir, fs))
                ELSE PathsLayout(user_paths)
    IN  IF from_file /\ ~has_paths
        THEN [layout |-> EmptyLayout, raised |-> Exc("KeyError", <<"paths">>)]
        ELSE [layout |-> SetDefaults(default, user), raised |-> NoError]

PathKeys == {"css_styles", "report_dir"}

\* values a layout may give a path: "", relative and absolute paths, a list
RawPaths ==
    {Str(<<>>), Str(<<"dir">>), Str(<<"/", "srv", "dir">>), Str(<<"x">>),
     PathList(<<<<"x">>, <<"/", "y">>>>)}

\* directories a user layout file may be in: dirname(user_path)
UserDirs == {<<>>, <<"conf">>, <<"/", "etc">>}

LayoutInit ==
    /\ NoSession
    /\ phase = "call"
    /\ args \in [from_file : BOOLEAN,
                 user_dir : UserDirs,
                 default_paths : [PathKeys -> RawPaths],
                 has_paths : BOOLEAN,
                 user_paths : UNION {[K -> RawPaths] : K \in SUBSET PathKeys},
                 fs : {"none", "empty", "full"}]
    /\ args.from_file \/ args.user_dir = <<>>
    /\ args.has_paths \/ args.user_paths = <<>>
    /\ ret = <<>>
    /\ raised = NoError

Layout ==
    /\ phase = "call"
    /\ phase' = "return"
    /\ LET r == GetLayout(args.from_file, args.user_dir, args.default_paths,
                          args.has_paths, args.user_paths, args.fs)
       IN  ret' = r.layout /\ raised' = r.raised
    /\ UNCHANGED <<sessionVars, written, args>>

SpecLayout == LayoutInit /\ [][Layout]_vars

\* "", an absolute path, or a list of absolute paths
Resolved(value) ==
    \/ value = Str(<<>>)
    \/ \A i \in DOMAIN value.paths : IsAbs(value.paths[i])

\* C3: every value of the merged layout's paths is the empty string, an
\* absolute path or a list of absolute paths, whether the user configuration
\* comes from a layout file or from keyword arguments.
C3_MergedPathsAreAbsolute ==
    (phase = "return" /\ raised = NoError) =>
        \A key \in DOMAIN ret.dict["paths"].dict :
            Resolved(ret.dict["paths"].dict[key].leaf)

\* the same holds of a user configuration read from a layout file
FilePathsAreAbsolute ==
    (phase = "return" /\ raised = NoError /\ args.from_file) =>
        \A key \in DOMAIN ret.dict["paths"].dict :
            Resolved(ret.dict["paths"].dict[key].leaf)

====
